---------------------------- MODULE Spec2Model ----------------------------
(***************************************************************************)
(* A model of the PGN tools of this repository: the move tokenizer, the    *)
(* pattern matcher, the record parser and serializer (pgn_filter.py,       *)
(* opening_report.py), the streaming rating filter (elo_filter.py) and the *)
(* branching analyzer (opening_report.py).                                 *)
(*                                                                         *)
(* A Python str is a sequence of one-character strings; a text is the      *)
(* sequence of its lines (the pieces between '\n').                        *)
(***************************************************************************)
EXTENDS Integers, Sequences, FiniteSets, TLC

VARIABLES
    pc,             \* the program's position
    raw_moves,      \* PGNGame.raw_moves of the game under test
    moves,          \* PGNGame.moves of the game under test
    src,            \* what the movetext under test was written from
    pattern,        \* the pattern argument
    start_move,     \* the start_move argument
    ret,            \* the value returned by the call under test
    headers,        \* the headers dict handed to should_include_game
    header_value,   \* the header value handed to extract_rating
    min_rating,     \* PGNRatingFilter.min_rating
    lines,          \* the lines the parser or the rating filter iterates over
    pos,            \* how many of them it has read
    current_game,   \* parse_pgn_content: the game being built, <<>> for None
    moves_section,  \* parse_pgn_content: the movetext lines gathered
    games,          \* the games parsed (PGNFilter.games)
    matching_games, \* what filter_games returned
    output_file,    \* the text save_filtered_games wrote, as its lines
    run,            \* 1, or 2 when the file read is the file written in run 1
    first_matching, \* in run 2: what filter_games returned in run 1
    in_game,        \* _stream_process: inside a game
    current_game_lines, \* _stream_process: the lines of the game being read
    current_headers,    \* _stream_process: its headers
    games_processed,    \* PGNRatingFilter.games_processed
    games_matched,      \* PGNRatingFilter.games_matched
    output_handle,  \* the lines written to PGNRatingFilter.output_handle
    game_idx,       \* analyze_branching_point: the games gone through
    move_stats,     \* analyze_branching_point: move_stats
    analysis        \* what analyze_branching_point returned, <<>> before

vars == <<pc, raw_moves, moves, src, pattern, start_move, ret,
          headers, header_value, min_rating,
          lines, pos, current_game, moves_section, games,
          matching_games, output_file, run, first_matching,
          in_game, current_game_lines, current_headers, games_processed,
          games_matched, output_handle, game_idx, move_stats, analysis>>

gameVars == <<raw_moves, moves, src>>
argVars == <<pattern, start_move>>
ratingVars == <<headers, header_value, min_rating>>
parserVars == <<lines, pos, current_game, moves_section, games>>
parserVarsButPos == <<lines, current_game, moves_section, games>>
filterVars == <<matching_games, output_file, run, first_matching>>
streamVars == <<in_game, current_game_lines, current_headers, games_processed,
                games_matched, output_handle>>
branchVars == <<game_idx, move_stats, analysis>>

-----------------------------------------------------------------------------
(* Characters and the str methods the code uses. *)

Digits == {"0", "1", "2", "3", "4", "5", "6", "7", "8", "9"}

Letters ==
    {"a", "b", "c", "d", "e", "f", "g", "h", "i", "j", "k", "l", "m",
     "n", "o", "p", "q", "r", "s", "t", "u", "v", "w", "x", "y", "z",
     "A", "B", "C", "D", "E", "F", "G", "H", "I", "J", "K", "L", "M",
     "N", "O", "P", "Q", "R", "S", "T", "U", "V", "W", "X", "Y", "Z"}

\* \w of the re module
WordChars == Letters \cup Digits \cup {"_"}

\* \s of the re module, and what str.strip() and str.split() take as blank
Whitespace == {" ", "\t"}

DigitValue(c) ==
    CASE c = "0" -> 0 [] c = "1" -> 1 [] c = "2" -> 2 [] c = "3" -> 3
      [] c = "4" -> 4 [] c = "5" -> 5 [] c = "6" -> 6 [] c = "7" -> 7
      [] c = "8" -> 8 [] c = "9" -> 9

\* s[i:j] of Python for 0 <= i, with j clipped to len(s)
Slice(s, i, j) ==
    IF j <= i THEN <<>> ELSE SubSeq(s, i + 1, IF j > Len(s) THEN Len(s) ELSE j)

StartsWith(s, p) == Len(s) >= Len(p) /\ SubSeq(s, 1, Len(p)) = p

EndsWith(s, p) ==
    Len(s) >= Len(p) /\ SubSeq(s, Len(s) - Len(p) + 1, Len(s)) = p

\* the number of leading characters of s that are in the class cls
RECURSIVE SpanOf(_, _)
SpanOf(s, cls) ==
    IF s # <<>> /\ Head(s) \in cls THEN 1 + SpanOf(Tail(s), cls) ELSE 0

\* the number of trailing characters of s that are in the class cls
RECURSIVE TrailOf(_, _)
TrailOf(s, cls) ==
    IF s # <<>> /\ s[Len(s)] \in cls
    THEN 1 + TrailOf(SubSeq(s, 1, Len(s) - 1), cls)
    ELSE 0

RStrip(s) == SubSeq(s, 1, Len(s) - TrailOf(s, Whitespace))

LStrip(s) == SubSeq(s, SpanOf(s, Whitespace) + 1, Len(s))

\* str.strip()
Strip(s) == LStrip(RStrip(s))

\* the number of leading characters of s that are not in the class cls
RECURSIVE SpanNotOf(_, _)
SpanNotOf(s, cls) ==
    IF s # <<>> /\ Head(s) \notin cls THEN 1 + SpanNotOf(Tail(s), cls) ELSE 0

\* str.split(): the maximal runs of non-blank characters, in order
RECURSIVE Split(_)
Split(s) ==
    LET t == LStrip(s)
        n == SpanNotOf(t, Whitespace)
    IN  IF t = <<>> THEN <<>>
        ELSE <<SubSeq(t, 1, n)>> \o Split(SubSeq(t, n + 1, Len(t)))

\* ' '.join(parts)
RECURSIVE JoinSpace(_)
JoinSpace(parts) ==
    IF parts = <<>> THEN <<>>
    ELSE IF Len(parts) = 1 THEN parts[1]
    ELSE parts[1] \o <<" ">> \o JoinSpace(Tail(parts))

\* the sequences over S of length at most n
SeqUpTo(S, n) == UNION {[1..k -> S] : k \in 0..n}

-----------------------------------------------------------------------------
(* A dict is the sequence of its <<key, value>> items in insertion order.  *)

HasKey(dict, key) == \E i \in 1..Len(dict) : dict[i][1] = key

\* dict[key] for a key of the dict
DictGet(dict, key) == dict[CHOOSE i \in 1..Len(dict) : dict[i][1] = key][2]

\* dict[key] = value: a key of the dict keeps its place
DictSet(dict, key, value) ==
    IF HasKey(dict, key)
    THEN [i \in 1..Len(dict) |->
            IF dict[i][1] = key THEN <<key, value>> ELSE dict[i]]
    ELSE Append(dict, <<key, value>>)

\* the parts of the state a specification does not use
GameIdle ==
    /\ raw_moves = <<>> /\ moves = <<>>
    /\ src = [moves |-> <<>>, fused |-> FALSE, result |-> 0, first |-> 1]

ArgIdle == pattern = <<>> /\ start_move = 1

RatingIdle == headers = <<>> /\ header_value = <<>> /\ min_rating = 0

ParserIdle ==
    /\ lines = <<>> /\ pos = 0 /\ current_game = <<>> /\ moves_section = <<>>
    /\ games = <<>>

FilterIdle ==
    /\ matching_games = <<>> /\ output_file = <<>> /\ run = 1
    /\ first_matching = <<>>

StreamIdle ==
    /\ in_game = FALSE /\ current_game_lines = <<>> /\ current_headers = <<>>
    /\ games_processed = 0 /\ games_matched = 0 /\ output_handle = <<>>

BranchIdle == game_idx = 0 /\ move_stats = <<>> /\ analysis = <<>>

-----------------------------------------------------------------------------
(* PGNGame.parse_moves: the move tokenizer. *)

\* the alternatives of the result group, in the order the regex lists them
ResultMarkers ==
    << <<"1", "-", "0">>, <<"0", "-", "1">>,
       <<"1", "/", "2", "-", "1", "/", "2">>, <<"*">> >>

\* re.sub(r'\s*(1-0|0-1|1/2-1/2|\*)\s*$', '', moves_text): the one match ends
\* at the end of the text, and starts at the blanks before the marker
StripResult(moves_text) ==
    LET t == RStrip(moves_text)
        hit == {i \in 1..Len(ResultMarkers) : EndsWith(t, ResultMarkers[i])}
    IN  IF hit = {} THEN moves_text
        ELSE LET m == ResultMarkers[CHOOSE i \in hit : TRUE]
             IN  RStrip(SubSeq(t, 1, Len(t) - Len(m)))

\* re.match(r'^\d+\.+$', token)
IsMoveNumber(token) ==
    LET n == SpanOf(token, Digits)
        d == SpanOf(SubSeq(token, n + 1, Len(token)), {"."})
    IN  n >= 1 /\ d >= 1 /\ n + d = Len(token)

\* re.match(r'^\d+\.+(.+)$', token): group(1), which is never empty, or <<>>
\* when there is no match
FusedMove(token) ==
    LET n == SpanOf(token, Digits)
        d == SpanOf(SubSeq(token, n + 1, Len(token)), {"."})
    IN  IF n >= 1 /\ d >= 1 /\ n + d < Len(token)
        THEN SubSeq(token, n + d + 1, Len(token))
        ELSE IF n >= 1 /\ d >= 2 /\ n + d = Len(token)
        THEN <<".">>          \* the dots give one back to the group
        ELSE <<>>

\* the for loop of parse_moves over the tokens
RECURSIVE TokensToMoves(_)
TokensToMoves(tokens) ==
    IF tokens = <<>> THEN <<>>
    ELSE LET token == Head(tokens)
             rest == TokensToMoves(Tail(tokens))
         IN  IF IsMoveNumber(token) THEN rest
             ELSE IF FusedMove(token) # <<>> THEN <<FusedMove(token)>> \o rest
             ELSE <<token>> \o rest

\* a tokenizer that forgets the numbers fused to a move
parse_moves_keeps_fused(moves_text) ==
    SelectSeq(Split(StripResult(moves_text)), LAMBDA t : ~IsMoveNumber(t))

parse_moves(moves_text) == TokensToMoves(Split(StripResult(moves_text)))

-----------------------------------------------------------------------------
(* The tokenizer under test: a movetext is written from a list of moves,   *)
(* with the numbers apart from or fused to the moves and with or without a *)
(* result marker, and set_moves tokenizes it.                              *)

MaxMoves == 3

MoveTokens ==
    { <<"e", "4">>, <<"e", "5">>, <<"N", "f", "3">>, <<"O", "-", "O">>,
      <<"Q", "x", "f", "7", "#">> }

\* the number a game's numbering starts from
FirstNumbers == {1, 10}

RECURSIVE ToDigits(_)
ToDigits(n) ==
    LET d == <<"0", "1", "2", "3", "4", "5", "6", "7", "8", "9">>[(n % 10) + 1]
    IN  IF n < 10 THEN <<d>> ELSE ToDigits(n \div 10) \o <<d>>

\* the pieces of a movetext: White's moves carry the move number
RECURSIVE MovePieces(_, _, _)
MovePieces(ms, ply, s) ==
    IF ms = <<>> THEN <<>>
    ELSE LET num == ToDigits(s.first + (ply \div 2)) \o <<".">>
             here == IF ply % 2 = 1 THEN <<Head(ms)>>
                     ELSE IF s.fused THEN <<num \o Head(ms)>>
                     ELSE <<num, Head(ms)>>
         IN  here \o MovePieces(Tail(ms), ply + 1, s)

Movetext(s) ==
    JoinSpace(MovePieces(s.moves, 0, s)
              \o (IF s.result = 0 THEN <<>> ELSE <<ResultMarkers[s.result]>>))

Sources ==
    [moves : SeqUpTo(MoveTokens, MaxMoves), fused : BOOLEAN,
     result : 0..Len(ResultMarkers), first : FirstNumbers]

InitTokenizer ==
    /\ pc = "set_moves"
    /\ src \in Sources
    /\ raw_moves = <<>>
    /\ moves = <<>>
    /\ ret = "None"
    /\ ArgIdle /\ RatingIdle /\ ParserIdle /\ FilterIdle /\ StreamIdle /\ BranchIdle

\* PGNGame.set_moves
SetMoves ==
    /\ pc = "set_moves"
    /\ raw_moves' = Movetext(src)
    /\ moves' = parse_moves(Movetext(src))
    /\ pc' = "tokenized"
    /\ UNCHANGED <<src, ret>>
    /\ UNCHANGED <<argVars, ratingVars, parserVars, filterVars, streamVars, branchVars>>

NextTokenizer == SetMoves

SpecTokenizer == InitTokenizer /\ [][NextTokenizer]_vars

\* C7: whatever the numbering convention and whether or not a result marker
\* ends the movetext, the tokens are the moves the movetext was written from,
\* in order; so two movetexts of the same moves have the same tokens, and no
\* move number and no result marker is among them.
TokensAreTheMoves == pc = "tokenized" => moves = src.moves

\* the spec's example: "1.e4 e5 2.Nf3 ... 1/2-1/2" has been tokenized
TokenizedFusedWithResult ==
    /\ pc = "tokenized"
    /\ src.fused /\ src.result = 3 /\ src.first = 1
    /\ src.moves = << <<"e", "4">>, <<"e", "5">>, <<"N", "f", "3">> >>
    /\ raw_moves = <<"1", ".", "e", "4", " ", "e", "5", " ", "2", ".", "N", "f", "3",
                     " ", "1", "/", "2", "-", "1", "/", "2">>
    /\ moves = src.moves

-----------------------------------------------------------------------------
(* PGNGame.move_matches and PGNGame.matches_pattern: the pattern matcher.  *)
(* A call returns "True" or "False", or ends in "IndexError".              *)

\* re.sub(r'[+#]$', '', move): one trailing check or mate sign is dropped
CleanMove(move) ==
    IF move # <<>> /\ move[Len(move)] \in {"+", "#"}
    THEN SubSeq(move, 1, Len(move) - 1)
    ELSE move

\* the regular expressions of the model: an optional ^, then literal
\* characters and dots, then an optional $ (the empty one included)
RegexBody(regex) ==
    LET a == IF StartsWith(regex, <<"^">>) THEN Tail(regex) ELSE regex
    IN  IF EndsWith(a, <<"$">>) THEN SubSeq(a, 1, Len(a) - 1) ELSE a

\* re.match(regex, s): the regex matches s from its start
ReMatch(regex, s) ==
    LET body == RegexBody(regex)
        toEnd == EndsWith(regex, <<"$">>)
    IN  /\ Len(body) <= Len(s)
        /\ \A i \in 1..Len(body) : body[i] = "." \/ body[i] = s[i]
        /\ toEnd => Len(body) = Len(s)

\* a matcher that compares the pattern element with its check sign left on
move_matches_raw_pattern(game_move, pattern_move) ==
    LET game_move_clean == CleanMove(game_move)
    IN  IF game_move_clean = pattern_move THEN TRUE
        ELSE IF pattern_move = <<"*">> THEN TRUE
        ELSE IF StartsWith(pattern_move, <<"/">>) /\ EndsWith(pattern_move, <<"/">>)
        THEN ReMatch(Slice(pattern_move, 1, Len(pattern_move) - 1), game_move_clean)
        ELSE FALSE

move_matches(game_move, pattern_move) ==
    LET game_move_clean == CleanMove(game_move)
        pattern_move_clean == CleanMove(pattern_move)
    IN  IF game_move_clean = pattern_move_clean THEN TRUE
        ELSE IF pattern_move_clean = <<"*">> THEN TRUE
        ELSE IF /\ StartsWith(pattern_move_clean, <<"/">>)
                /\ EndsWith(pattern_move_clean, <<"/">>)
        THEN ReMatch(Slice(pattern_move_clean, 1, Len(pattern_move_clean) - 1),
                     game_move_clean)
        ELSE FALSE

\* whether list[i] of Python reads an element: i counts from the end when
\* it is negative, and an i outside the list raises IndexError
InRange(list, i) == -Len(list) <= i /\ i < Len(list)

ListGet(list, i) == IF i >= 0 THEN list[i + 1] ELSE list[Len(list) + i + 1]

\* the compare loop of matches_pattern from pattern element i on
RECURSIVE CompareMoves(_, _, _, _)
CompareMoves(game_moves, pat, start_idx, i) ==
    IF i >= Len(pat) THEN "True"
    ELSE IF ~InRange(game_moves, start_idx + i) THEN "IndexError"
    ELSE IF ~move_matches(ListGet(game_moves, start_idx + i), pat[i + 1]) THEN "False"
    ELSE CompareMoves(game_moves, pat, start_idx, i + 1)

\* a matcher without the check that the game has moves enough
matches_pattern_unchecked(game_moves, pat, start) ==
    LET start_idx == ((IF start < 1 THEN 1 ELSE start) - 1) * 2
    IN  IF start_idx >= Len(game_moves) THEN "False"
        ELSE CompareMoves(game_moves, pat, start_idx, 0)

matches_pattern(game_moves, pat, start) ==
    LET start_idx == ((IF start < 1 THEN 1 ELSE start) - 1) * 2
    IN  IF start_idx >= Len(game_moves) THEN "False"
        ELSE IF start_idx + Len(pat) > Len(game_moves) THEN "False"
        ELSE CompareMoves(game_moves, pat, start_idx, 0)

-----------------------------------------------------------------------------
(* The matcher under test: a game's tokens, a pattern and a start move.    *)

MaxTokens == 3
MaxPattern == 2
MaxStartMove == 2

GameTokens ==
    { <<"e", "4">>, <<"e", "5">>, <<"N", "f", "3", "+">>, <<"N", "c", "6">> }

PatternElements ==
    { <<"e", "4">>, <<"e", "5">>, <<"N", "f", "3", "#">>, <<"*">>,
      <<"/", "^", "N", "/">>, <<"/", "c", "/">>, <<"/">> }

InitMatcher ==
    /\ pc = "matches_pattern"
    /\ moves \in SeqUpTo(GameTokens, MaxTokens)
    /\ pattern \in SeqUpTo(PatternElements, MaxPattern)
    /\ start_move \in 0..MaxStartMove
    /\ raw_moves = <<>>
    /\ src = [moves |-> <<>>, fused |-> FALSE, result |-> 0, first |-> 1]
    /\ ret = "None"
    /\ RatingIdle /\ ParserIdle /\ FilterIdle /\ StreamIdle /\ BranchIdle

\* a call of PGNGame.matches_pattern
MatchesPattern ==
    /\ pc = "matches_pattern"
    /\ ret' = matches_pattern(moves, pattern, start_move)
    /\ pc' = "matched"
    /\ UNCHANGED <<gameVars, argVars, ratingVars, parserVars, filterVars, streamVars, branchVars>>

NextMatcher == MatchesPattern

SpecMatcher == InitMatcher /\ [][NextMatcher]_vars

\* the ply the pattern is anchored at
StartIdx == ((IF start_move < 1 THEN 1 ELSE start_move) - 1) * 2

\* C5: a game with no token at the start ply, or with fewer tokens from there
\* than the pattern has elements, does not match: the call returns false,
\* and does not raise, however many leading elements agree.
ShortGameNeverMatches ==
    (pc = "matched" /\ (StartIdx >= Len(moves) \/ StartIdx + Len(pattern) > Len(moves)))
        => ret = "False"

\* a pattern of two elements was tried on a game of one token that agrees
\* with the first element
ShortGameWithEqualPrefix ==
    /\ pc = "matched"
    /\ start_move = 1 /\ Len(pattern) = 2 /\ Len(moves) = 1
    /\ pattern[1] = moves[1]
    /\ ret = "False"

\* an element matches a token: equal once one trailing + or # is dropped
\* from both, or the element is *, or the element is /regex/ (it starts and
\* ends with a slash; the regex is what lies between, nothing for a lone
\* slash) and the regex matches the token from its start
ElementMatches(element, token) ==
    LET e == CleanMove(element)
        t == CleanMove(token)
    IN  \/ e = t
        \/ e = <<"*">>
        \/ /\ e # <<>> /\ e[1] = "/" /\ e[Len(e)] = "/"
           /\ ReMatch(SubSeq(e, 2, Len(e) - 1), t)

\* C6: when the game has a token at every ply of the pattern, the call
\* returns true exactly when every element matches the token at its ply.
MatchIffEveryElementMatches ==
    (pc = "matched" /\ StartIdx < Len(moves) /\ StartIdx + Len(pattern) <= Len(moves))
        => (ret = "True" <=>
                \A i \in 1..Len(pattern) : ElementMatches(pattern[i], moves[StartIdx + i]))

\* e4 and /^N/ matched a game that goes e4 Nc6 e5
RegexElementMatched ==
    /\ pc = "matched"
    /\ start_move = 1
    /\ pattern = << <<"e", "4">>, <<"/", "^", "N", "/">> >>
    /\ moves = << <<"e", "4">>, <<"N", "c", "6">>, <<"e", "5">> >>
    /\ ret = "True"

-----------------------------------------------------------------------------
(* PGNRatingFilter.extract_rating and should_include_game.  An             *)
(* Optional[int] is a set of at most one integer: {} is None.              *)

MinSaneRating == 1000
MaxSaneRating == 3500

\* str.strip('"')
StripQuotes(s) ==
    SubSeq(s, SpanOf(s, {"\""}) + 1, Len(s) - TrailOf(s, {"\""}))

\* int() of a string of decimal digits
RECURSIVE ToInt(_)
ToInt(ds) ==
    IF ds = <<>> THEN 0
    ELSE 10 * ToInt(SubSeq(ds, 1, Len(ds) - 1)) + DigitValue(ds[Len(ds)])

\* re.search(r'(\d{3,4})', s): group(1) of the leftmost match, the longer
\* one at its place, or <<>> when three digits never follow one another
RECURSIVE SearchDigits(_)
SearchDigits(s) ==
    IF Len(s) < 3 THEN <<>>
    ELSE LET n == SpanOf(s, Digits)
         IN  IF n >= 3 THEN SubSeq(s, 1, IF n >= 4 THEN 4 ELSE 3)
             ELSE SearchDigits(Tail(s))

\* an extraction without the sanity range
extract_rating_any(value) ==
    IF value = <<>> \/ value = <<"?">> THEN {}
    ELSE LET m == SearchDigits(StripQuotes(value))
         IN  IF m # <<>> THEN {ToInt(m)} ELSE {}

extract_rating(value) ==
    IF value = <<>> \/ value = <<"?">> THEN {}
    ELSE LET m == SearchDigits(StripQuotes(value))
         IN  IF m # <<>> /\ MinSaneRating <= ToInt(m) /\ ToInt(m) <= MaxSaneRating
             THEN {ToInt(m)}
             ELSE {}

WhiteElo == <<"W", "h", "i", "t", "e", "E", "l", "o">>
BlackElo == <<"B", "l", "a", "c", "k", "E", "l", "o">>

\* an acceptance that asks only one player to reach the threshold
should_include_game_either(hdrs, min) ==
    LET absent(key) == ~HasKey(hdrs, key) \/ DictGet(hdrs, key) = <<>>
    IN  IF absent(WhiteElo) \/ absent(BlackElo) THEN FALSE
        ELSE LET white_rating == extract_rating(DictGet(hdrs, WhiteElo))
                 black_rating == extract_rating(DictGet(hdrs, BlackElo))
             IN  IF white_rating = {} \/ black_rating = {} THEN FALSE
                 ELSE \E w \in white_rating, b \in black_rating : w >= min \/ b >= min

should_include_game(hdrs, min) ==
    LET absent(key) == ~HasKey(hdrs, key) \/ DictGet(hdrs, key) = <<>>
    IN  IF absent(WhiteElo) \/ absent(BlackElo) THEN FALSE
        ELSE LET white_rating == extract_rating(DictGet(hdrs, WhiteElo))
                 black_rating == extract_rating(DictGet(hdrs, BlackElo))
             IN  IF white_rating = {} \/ black_rating = {} THEN FALSE
                 ELSE \A w \in white_rating, b \in black_rating : w >= min /\ b >= min

-----------------------------------------------------------------------------
(* The rating predicate under test: one player's header value is any short *)
(* string, the other's is absent or one of a few values.                   *)

MaxValueLen == 4

RatingChars == {"0", "1", "3", "?"}

ExampleValues ==
    { <<"2", "4", "7", "5", "?">>, <<"9", "9", "9", "9">>,
      <<"2", "5", "0", "0">>, <<"3", "5", "0", "0">>, <<"3", "5", "0", "1">>,
      <<"\"", "2", "5", "0", "0", "\"">> }

HeaderValues == SeqUpTo(RatingChars, MaxValueLen) \cup ExampleValues

\* the other player's header: none, or one of these values
OtherValues == { <<"?">>, <<"2", "4", "6", "0">> }

Thresholds == {1300, 2450, 2470}

\* the headers of a game: no rating header, one, or both in either order
RatedHeaders(v) ==
    { <<>>, << <<WhiteElo, v>> >>, << <<BlackElo, v>> >> }
    \cup { << <<WhiteElo, v>>, <<BlackElo, o>> >> : o \in OtherValues }
    \cup { << <<BlackElo, o>>, <<WhiteElo, v>> >> : o \in OtherValues }

InitRating ==
    /\ pc = "rating"
    /\ \E v \in HeaderValues : headers \in RatedHeaders(v)
    /\ min_rating \in Thresholds
    /\ header_value = <<>>
    /\ ret = "None"
    /\ GameIdle /\ ArgIdle /\ ParserIdle /\ FilterIdle /\ StreamIdle /\ BranchIdle

\* a call of extract_rating with the value of one of the two rating headers
ExtractRating ==
    /\ pc = "rating"
    /\ \E key \in {WhiteElo, BlackElo} :
          /\ HasKey(headers, key)
          /\ header_value' = DictGet(headers, key)
          /\ ret' = extract_rating(DictGet(headers, key))
    /\ pc' = "extracted"
    /\ UNCHANGED <<headers, min_rating>>
    /\ UNCHANGED <<gameVars, argVars, parserVars, filterVars, streamVars, branchVars>>

\* a call of should_include_game
ShouldIncludeGame ==
    /\ pc = "rating"
    /\ ret' = should_include_game(headers, min_rating)
    /\ pc' = "decided"
    /\ UNCHANGED <<ratingVars, gameVars, argVars, parserVars, filterVars, streamVars, branchVars>>

NextRating == ExtractRating \/ ShouldIncludeGame

SpecRating == InitRating /\ [][NextRating]_vars

\* the places of s where three digits follow one another
DigitRuns(s) ==
    {i \in 1..(Len(s) - 2) : \A j \in i..(i + 2) : s[j] \in Digits}

\* the first run of three digits of s, with the digit after it if there
\* is one: <<>> when s has no such run
FirstRun(s) ==
    IF DigitRuns(s) = {} THEN <<>>
    ELSE LET i == CHOOSE k \in DigitRuns(s) : \A l \in DigitRuns(s) : k <= l
         IN  IF i + 3 <= Len(s) /\ s[i + 3] \in Digits
             THEN SubSeq(s, i, i + 3)
             ELSE SubSeq(s, i, i + 2)

\* C8: extract_rating returns no rating or an integer of 1000..3500: the
\* value of the first run of 3-4 digits when that is in the range, and no
\* rating for the empty value, for '?', for a value with no run of three
\* digits and for a first run outside the range.
RatingIsFirstRunInRange ==
    pc = "extracted" =>
        /\ ret \subseteq 1000..3500
        /\ Cardinality(ret) <= 1
        /\ LET found == FirstRun(header_value)
               inRange == found # <<>> /\ ToInt(found) >= 1000 /\ ToInt(found) <= 3500
           IN  /\ (header_value \notin {<<>>, <<"?">>} /\ inRange) => ret = {ToInt(found)}
               /\ (header_value \in {<<>>, <<"?">>} \/ ~inRange) => ret = {}

\* the spec's example: "2475?" gave 2475
ExtractedFromDecoratedValue ==
    /\ pc = "extracted"
    /\ header_value = <<"2", "4", "7", "5", "?">>
    /\ ret = {2475}

\* the rating a header value yields, by the reading of C8
Yields(hdrs, key) ==
    IF ~HasKey(hdrs, key) THEN {}
    ELSE LET v == DictGet(hdrs, key)
             found == FirstRun(v)
         IN  IF v \in {<<>>, <<"?">>} \/ found = <<>> THEN {}
             ELSE {ToInt(found)} \cap (1000..3500)

\* C9: a game is accepted exactly when both rating headers are there, each
\* yields a rating and both ratings reach the threshold; so a game accepted
\* at a threshold is accepted at every lower one, and a game that lacks a
\* rating is rejected at every threshold.
AcceptedIffBothReachThreshold ==
    pc = "decided" =>
        /\ ret <=> /\ Yields(headers, WhiteElo) # {}
                   /\ Yields(headers, BlackElo) # {}
                   /\ \A r \in Yields(headers, WhiteElo) \cup Yields(headers, BlackElo) :
                         r >= min_rating
        /\ ret => \A t \in Thresholds :
                     t <= min_rating => should_include_game(headers, t)
        /\ (Yields(headers, WhiteElo) = {} \/ Yields(headers, BlackElo) = {})
             => \A t \in Thresholds : ~should_include_game(headers, t)

\* the spec's example: 2500 against 2460 is accepted at 2450 ...
AcceptedAtLowerThreshold ==
    /\ pc = "decided"
    /\ min_rating = 2450
    /\ headers = << <<WhiteElo, <<"2", "5", "0", "0">> >>,
                    <<BlackElo, <<"2", "4", "6", "0">> >> >>
    /\ ret = TRUE

-----------------------------------------------------------------------------
(* PGNGame as a record, PGNGame.to_pgn and PGNFilter.save_filtered_games.  *)
(* A text is the sequence of the pieces between its newlines: the empty    *)
(* text is << <<>> >>, and a text that ends in a newline ends in <<>>.     *)

\* PGNGame.__init__
NewGame == [headers |-> <<>>, moves |-> <<>>, raw_moves |-> <<>>]

add_header(game, key, value) ==
    [game EXCEPT !.headers = DictSet(@, key, value)]

set_moves(game, moves_text) ==
    [game EXCEPT !.raw_moves = moves_text, !.moves = parse_moves(moves_text)]

EmptyText == << <<>> >>

\* f'[{key} "{value}"]'
HeaderLine(key, value) ==
    <<"[">> \o key \o <<" ", "\"">> \o value \o <<"\"", "]">>

\* '\n'.join(result): the text whose pieces are the elements of result
to_pgn(game) ==
    [i \in 1..Len(game.headers) |->
        HeaderLine(game.headers[i][1], game.headers[i][2])]
    \o (IF game.headers # <<>> THEN << <<>> >> ELSE <<>>)
    \o <<game.raw_moves, <<>>>>

\* f.write(text) after what the file holds: the strings are concatenated
Write(file, text) ==
    SubSeq(file, 1, Len(file) - 1) \o <<file[Len(file)] \o text[1]>> \o Tail(text)

RECURSIVE WriteGames(_, _)
WriteGames(file, gs) ==
    IF gs = <<>> THEN file
    ELSE WriteGames(Write(file, to_pgn(Head(gs))), Tail(gs))

save_filtered_games(gs) == WriteGames(EmptyText, gs)

-----------------------------------------------------------------------------
(* PGNFilter.parse_pgn_content and PGNFilter.filter_games.                 *)

IsBlank(line) == Strip(line) = <<>>

\* content.strip().split('\n')
StripText(text) ==
    LET full == {i \in 1..Len(text) : ~IsBlank(text[i])}
    IN  IF full = {} THEN EmptyText
        ELSE LET a == CHOOSE i \in full : \A j \in full : i <= j
                 b == CHOOSE i \in full : \A j \in full : j <= i
             IN  [i \in 1..(b - a + 1) |->
                    LET l == text[a + i - 1]
                        l1 == IF i = 1 THEN LStrip(l) ELSE l
                    IN  IF a + i - 1 = b THEN RStrip(l1) ELSE l1]

\* line.startswith('[') and line.endswith(']')
IsHeaderShaped(line) == StartsWith(line, <<"[">>) /\ EndsWith(line, <<"]">>)

\* re.match(r'\[(\w+)\s+"([^"]*)"\]', line): <<key, value>>, or <<>> when
\* the line does not start that way
ParseHeader(line) ==
    LET r1 == Tail(line)
        k == SpanOf(r1, WordChars)
        r2 == SubSeq(r1, k + 1, Len(r1))
        w == SpanOf(r2, Whitespace)
        r3 == SubSeq(r2, w + 1, Len(r2))
        r4 == Tail(r3)
        v == SpanNotOf(r4, {"\""})
    IN  IF /\ line # <<>> /\ Head(line) = "["
           /\ k >= 1 /\ w >= 1
           /\ r3 # <<>> /\ Head(r3) = "\""
           /\ Len(r4) >= v + 2 /\ r4[v + 1] = "\"" /\ r4[v + 2] = "]"
        THEN <<SubSeq(r1, 1, k), SubSeq(r4, 1, v)>>
        ELSE <<>>

\* the parser's locals: current_game is <<>> for None, else <<the game>>
ParserState(cg, ms, gs) == [current_game |-> cg, moves_section |-> ms, games |-> gs]

\* the end of a game: the movetext is tokenized and the game appended
EmitGame(st) ==
    ParserState(<<>>, <<>>,
                Append(st.games, set_moves(st.current_game[1], JoinSpace(st.moves_section))))

\* a blank line that ends the game whenever one was begun
OnBlankLineAnyGame(st) ==
    IF st.current_game # <<>> THEN EmitGame(st) ELSE st

\* a blank line
OnBlankLine(st) ==
    IF st.current_game # <<>> /\ st.moves_section # <<>> THEN EmitGame(st) ELSE st

\* a header-shaped line that is taken as movetext when it does not parse
OnHeaderLineOrMoves(st, line) ==
    LET game == IF st.current_game = <<>> THEN NewGame ELSE st.current_game[1]
        kv == ParseHeader(line)
    IN  IF kv # <<>>
        THEN ParserState(<<add_header(game, kv[1], kv[2])>>, st.moves_section, st.games)
        ELSE ParserState(<<game>>, Append(st.moves_section, line), st.games)

\* a line that starts with [ and ends with ]
OnHeaderLine(st, line) ==
    LET game == IF st.current_game = <<>> THEN NewGame ELSE st.current_game[1]
        kv == ParseHeader(line)
    IN  ParserState(<<IF kv # <<>> THEN add_header(game, kv[1], kv[2]) ELSE game>>,
                    st.moves_section, st.games)

\* any other line
OnMovesLine(st, line) ==
    ParserState(st.current_game, Append(st.moves_section, line), st.games)

\* after the loop: the last game when the file does not end with a blank line
AtEndOfLines(st) ==
    IF st.current_game # <<>> /\ st.moves_section # <<>> THEN EmitGame(st) ELSE st

\* the loop of parse_pgn_content over the lines ls, from the locals st
RECURSIVE ParseLines(_, _)
ParseLines(ls, st) ==
    IF ls = <<>> THEN st
    ELSE LET line == Strip(Head(ls))
         IN  ParseLines(Tail(ls),
                        IF line = <<>> THEN OnBlankLine(st)
                        ELSE IF IsHeaderShaped(line) THEN OnHeaderLine(st, line)
                        ELSE OnMovesLine(st, line))

\* the games parse_pgn_content returns for the lines ls
ParsedFrom(ls) == AtEndOfLines(ParseLines(ls, ParserState(<<>>, <<>>, <<>>))).games

\* filter_games: the games that match, in order
filter_games(gs, pat, start) ==
    SelectSeq(gs, LAMBDA g : matches_pattern(g.moves, pat, start) = "True")

-----------------------------------------------------------------------------
(* The pattern filter under test: a file is parsed line by line, filtered  *)
(* and saved; then the file saved is parsed and filtered the same way.     *)

MaxLines == 5

HdrWhiteA == <<"[", "W", "h", "i", "t", "e", " ", "\"", "A", "\"", "]">>
HdrBlackB == <<"[", "B", "l", "a", "c", "k", " ", "\"", "B", "\"", "]">>
BadHeader == <<"[", "S", "i", "t", "e", "]">>
MovesLine == <<"1", ".", "e", "4", " ", "e", "5", " ", "1", "-", "0">>

ParserLines == { <<>>, HdrWhiteA, HdrBlackB, BadHeader, MovesLine }

FilterPatterns ==
    { << <<"e", "4">> >>, << <<"*">>, <<"e", "5">> >>, << <<"d", "4">> >> }

InitFilter ==
    /\ pc = "parsing"
    /\ \E content \in SeqUpTo(ParserLines, MaxLines) \ {<<>>} :
          lines = StripText(content)
    /\ pos = 0
    /\ current_game = <<>>
    /\ moves_section = <<>>
    /\ games = <<>>
    /\ ret = "None"
    /\ GameIdle /\ ArgIdle /\ RatingIdle /\ FilterIdle /\ StreamIdle /\ BranchIdle

Locals == ParserState(current_game, moves_section, games)

SetLocals(st) ==
    /\ current_game' = st.current_game
    /\ moves_section' = st.moves_section
    /\ games' = st.games

\* the loop body of parse_pgn_content, on the next line
ParseLine ==
    /\ pc = "parsing"
    /\ pos < Len(lines)
    /\ LET line == Strip(lines[pos + 1])
       IN  \/ /\ line = <<>>
              /\ SetLocals(OnBlankLine(Locals))
           \/ /\ line # <<>> /\ IsHeaderShaped(line)
              /\ SetLocals(OnHeaderLine(Locals, line))
           \/ /\ line # <<>> /\ ~IsHeaderShaped(line)
              /\ SetLocals(OnMovesLine(Locals, line))
    /\ pos' = pos + 1
    /\ UNCHANGED <<pc, lines, ret>>
    /\ UNCHANGED <<gameVars, argVars, ratingVars, filterVars, streamVars, branchVars>>

\* the end of parse_pgn_content: load_pgn keeps the games
HandleLastGame ==
    /\ pc = "parsing"
    /\ pos = Len(lines)
    /\ SetLocals(AtEndOfLines(Locals))
    /\ pc' = "parsed"
    /\ UNCHANGED <<lines, pos, ret>>
    /\ UNCHANGED <<gameVars, argVars, ratingVars, filterVars, streamVars, branchVars>>

\* main: filter_games with the pattern and the start move of the command
\* line, the same in both runs
FilterGames ==
    /\ pc = "parsed"
    /\ \E pat \in FilterPatterns, start \in 0..MaxStartMove :
          /\ run = 2 => (pat = pattern /\ start = start_move)
          /\ pattern' = pat
          /\ start_move' = start
          /\ matching_games' = filter_games(games, pat, start)
    /\ pc' = "filtered"
    /\ UNCHANGED <<ret, output_file, run, first_matching>>
    /\ UNCHANGED <<gameVars, ratingVars, parserVars, streamVars, branchVars>>

\* main: the matching games, when there are any, are saved
SaveFilteredGames ==
    /\ pc = "filtered"
    /\ run = 1
    /\ matching_games # <<>>
    /\ output_file' = save_filtered_games(matching_games)
    /\ pc' = "saved"
    /\ UNCHANGED <<ret, matching_games, run, first_matching>>
    /\ UNCHANGED <<gameVars, argVars, ratingVars, parserVars, streamVars, branchVars>>

\* the second run: load_pgn reads the file the first run saved
LoadSavedFile ==
    /\ pc = "saved"
    /\ run' = 2
    /\ first_matching' = matching_games
    /\ matching_games' = <<>>
    /\ lines' = StripText(output_file)
    /\ pos' = 0
    /\ current_game' = <<>>
    /\ moves_section' = <<>>
    /\ games' = <<>>
    /\ pc' = "parsing"
    /\ UNCHANGED <<ret, output_file>>
    /\ UNCHANGED <<gameVars, argVars, ratingVars, streamVars, branchVars>>

NextFilter ==
    \/ ParseLine
    \/ HandleLastGame
    \/ FilterGames
    \/ SaveFilteredGames
    \/ LoadSavedFile

SpecFilter == InitFilter /\ [][NextFilter]_vars

\* two games are the same record: equal headers and equal move tokens
SameRecord(g, h) == g.headers = h.headers /\ g.moves = h.moves

\* C1: the games filtered from the file that was saved are the games that
\* were saved: as many, in the same order, each with equal headers and
\* equal move tokens.  (Stated for saved games that have headers, two or
\* more of them included.)
RoundTripSameRecords ==
    (/\ pc = "filtered" /\ run = 2
     /\ \A i \in 1..Len(first_matching) : first_matching[i].headers # <<>>) =>
        /\ Len(matching_games) = Len(first_matching)
        /\ \A i \in 1..Len(first_matching) :
              SameRecord(matching_games[i], first_matching[i])

\* the lines of one record as the spec describes them: the headers, a
\* blank line if there are headers, the raw movetext, a blank line
RecordLines(game) ==
    [i \in 1..Len(game.headers) |->
        HeaderLine(game.headers[i][1], game.headers[i][2])]
    \o (IF game.headers # <<>> THEN << <<>> >> ELSE <<>>)
    \o <<game.raw_moves>> \o << <<>> >>

RECURSIVE RecordsLines(_)
RecordsLines(gs) ==
    IF gs = <<>> THEN <<>> ELSE RecordLines(Head(gs)) \o RecordsLines(Tail(gs))

\* C2: the text saved is, record after record, the header lines, a blank
\* line if there are headers, the raw movetext and a blank line: a blank
\* line lies between two records and after the last one.  (Stated for a
\* file of two records or more, each with headers.)
SavedTextShape ==
    (/\ pc = "saved" /\ Len(matching_games) >= 2
     /\ \A i \in 1..Len(matching_games) : matching_games[i].headers # <<>>) =>
        output_file = RecordsLines(matching_games) \o EmptyText

\* C3: at the end of the lines a game that has gathered a header is
\* emitted, also when it has header lines only.
FinalRecordEmitted ==
    [][(/\ pc = "parsing" /\ pc' = "parsed"
        /\ current_game # <<>> /\ current_game[1].headers # <<>>)
          => Len(games') = Len(games) + 1]_vars

-----------------------------------------------------------------------------
(* PGNRatingFilter._stream_process: the streaming rating filter.  The file *)
(* is the sequence of the lines the loop iterates over, and what is        *)
(* written is the sequence of the lines written, each with its newline.    *)

StreamState(ig, gl, hs, np, nm, out) ==
    [in_game |-> ig, current_game_lines |-> gl, current_headers |-> hs,
     games_processed |-> np, games_matched |-> nm, output_handle |-> out]

\* an end of a game that writes no blank line after the game
EndOfGameNoBlankLine(st, min) ==
    LET include == should_include_game(st.current_headers, min)
    IN  StreamState(FALSE, <<>>, <<>>,
                    st.games_processed + 1,
                    IF include THEN st.games_matched + 1 ELSE st.games_matched,
                    IF include
                    THEN st.output_handle \o st.current_game_lines
                    ELSE st.output_handle)

\* the end of a game: it is counted, written when both ratings reach the
\* threshold, and the locals are reset
EndOfGame(st, min) ==
    LET include == should_include_game(st.current_headers, min)
    IN  StreamState(FALSE, <<>>, <<>>,
                    st.games_processed + 1,
                    IF include THEN st.games_matched + 1 ELSE st.games_matched,
                    IF include
                    THEN st.output_handle \o st.current_game_lines \o << <<>> >>
                    ELSE st.output_handle)

\* the loop body of _stream_process on one line
OnStreamLine(st, raw, min) ==
    LET line == Strip(raw)
    IN  IF IsHeaderShaped(line)
        THEN LET hs == IF st.in_game THEN st.current_headers ELSE <<>>
                 gl == IF st.in_game THEN st.current_game_lines ELSE <<>>
                 kv == ParseHeader(line)
             IN  StreamState(TRUE, Append(gl, line),
                             IF kv # <<>> THEN DictSet(hs, kv[1], kv[2]) ELSE hs,
                             st.games_processed, st.games_matched, st.output_handle)
        ELSE IF line # <<>> /\ st.in_game
        THEN [st EXCEPT !.current_game_lines = Append(@, line)]
        ELSE IF line = <<>> /\ st.in_game
        THEN EndOfGame(st, min)
        ELSE st

\* after the loop: the last game when the file does not end with a blank line
AtEndOfStream(st, min) ==
    IF st.in_game /\ st.current_game_lines # <<>> THEN EndOfGame(st, min) ELSE st

-----------------------------------------------------------------------------
(* The rating filter under test: a file of a few lines and a threshold.    *)

HdrWhite2500 ==
    <<"[", "W", "h", "i", "t", "e", "E", "l", "o", " ", "\"", "2", "5", "0", "0", "\"", "]">>
HdrBlack2500 ==
    <<"[", "B", "l", "a", "c", "k", "E", "l", "o", " ", "\"", "2", "5", "0", "0", "\"", "]">>

StreamLines == { <<>>, HdrWhite2500, HdrBlack2500, BadHeader, MovesLine }

StreamThresholds == {2450, 2600}

InitStream ==
    /\ pc = "streaming"
    /\ lines \in SeqUpTo(StreamLines, MaxLines)
    /\ min_rating \in StreamThresholds
    /\ pos = 0
    /\ ret = "None"
    /\ current_game = <<>> /\ moves_section = <<>> /\ games = <<>>
    /\ headers = <<>> /\ header_value = <<>>
    /\ GameIdle /\ ArgIdle /\ FilterIdle /\ StreamIdle /\ BranchIdle

StreamLocals ==
    StreamState(in_game, current_game_lines, current_headers, games_processed,
                games_matched, output_handle)

SetStreamLocals(st) ==
    /\ in_game' = st.in_game
    /\ current_game_lines' = st.current_game_lines
    /\ current_headers' = st.current_headers
    /\ games_processed' = st.games_processed
    /\ games_matched' = st.games_matched
    /\ output_handle' = st.output_handle

\* one turn of the loop of _stream_process
StreamLine ==
    /\ pc = "streaming"
    /\ pos < Len(lines)
    /\ SetStreamLocals(OnStreamLine(StreamLocals, lines[pos + 1], min_rating))
    /\ pos' = pos + 1
    /\ UNCHANGED <<pc, ret, parserVarsButPos, branchVars>>
    /\ UNCHANGED <<gameVars, argVars, ratingVars, filterVars, branchVars>>

\* the end of _stream_process
StreamEnd ==
    /\ pc = "streaming"
    /\ pos = Len(lines)
    /\ SetStreamLocals(AtEndOfStream(StreamLocals, min_rating))
    /\ pc' = "streamed"
    /\ UNCHANGED <<pos, ret, parserVarsButPos, branchVars>>
    /\ UNCHANGED <<gameVars, argVars, ratingVars, filterVars, branchVars>>

NextStream == StreamLine \/ StreamEnd

SpecStream == InitStream /\ [][NextStream]_vars

\* the games of a file as PGN has them: a block of header lines, blank
\* lines or none, then the movetext lines up to a blank line, a header or
\* the end.  Each game is the sequence of its lines, stripped.
RECURSIVE GamesFrom(_, _, _, _)
GamesFrom(ls, phase, cur, acc) ==
    IF ls = <<>> THEN (IF phase = "out" THEN acc ELSE Append(acc, cur))
    ELSE LET line == Strip(Head(ls))
             rest == Tail(ls)
         IN  IF IsHeaderShaped(line)
             THEN IF phase = "hdr" THEN GamesFrom(rest, "hdr", Append(cur, line), acc)
                  ELSE GamesFrom(rest, "hdr", <<line>>,
                                 IF phase = "out" THEN acc ELSE Append(acc, cur))
             ELSE IF line = <<>>
             THEN IF phase = "hdr" \/ phase = "gap" THEN GamesFrom(rest, "gap", cur, acc)
                  ELSE GamesFrom(rest, "out", <<>>,
                                 IF phase = "mov" THEN Append(acc, cur) ELSE acc)
             ELSE IF phase = "out" THEN GamesFrom(rest, "out", <<>>, acc)
                  ELSE GamesFrom(rest, "mov", Append(cur, line), acc)

GamesOf(ls) == GamesFrom(ls, "out", <<>>, <<>>)

\* the lines of the games chosen by keep, each game whole
RECURSIVE WholeGames(_, _)
WholeGames(gs, keep) ==
    IF gs = <<>> THEN <<>>
    ELSE (IF Head(keep) THEN Head(gs) ELSE <<>>) \o WholeGames(Tail(gs), Tail(keep))

\* C4: what the filter has written is made of whole games: each game of
\* the file is there with all its header lines and all its movetext lines,
\* or not at all.
WritesWholeGames ==
    pc = "streamed" =>
        LET gs == GamesOf(lines)
            written == SelectSeq(output_handle, LAMBDA l : l # <<>>)
        IN  \E keep \in [1..Len(gs) -> BOOLEAN] : written = WholeGames(gs, keep)

-----------------------------------------------------------------------------
(* PGNFilter.analyze_branching_point of opening_report.py.  move_stats is  *)
(* a dict from the cleaned move to its counters; points are counted in     *)
(* half points, so that 1.0 is 2 and 0.5 is 1.                             *)

ResultKey == <<"R", "e", "s", "u", "l", "t">>

\* game.headers.get('Result', '*')
ResultOf(game) ==
    IF HasKey(game.headers, ResultKey) THEN DictGet(game.headers, ResultKey)
    ELSE <<"*">>

\* branching_ply = start_idx + pattern_length
BranchingPlyOf(pat, start) == (start - 1) * 2 + Len(pat)

NewStats == [count |-> 0, points |-> 0, wins |-> 0, draws |-> 0, losses |-> 0]

\* a scoring that reads every result as if the move were White's
ScoredAsWhite(stats, result, is_white_move) ==
    IF result = ResultMarkers[1]
    THEN [stats EXCEPT !.wins = @ + 1, !.points = @ + 2]
    ELSE IF result = ResultMarkers[2]
    THEN [stats EXCEPT !.losses = @ + 1]
    ELSE IF result = ResultMarkers[3]
    THEN [stats EXCEPT !.draws = @ + 1, !.points = @ + 1]
    ELSE stats

\* the scoring of one game: the result against whose turn it is
Scored(stats, result, is_white_move) ==
    IF result = ResultMarkers[1]
    THEN IF is_white_move
         THEN [stats EXCEPT !.wins = @ + 1, !.points = @ + 2]
         ELSE [stats EXCEPT !.losses = @ + 1]
    ELSE IF result = ResultMarkers[2]
    THEN IF is_white_move
         THEN [stats EXCEPT !.losses = @ + 1]
         ELSE [stats EXCEPT !.wins = @ + 1, !.points = @ + 2]
    ELSE IF result = ResultMarkers[3]
    THEN [stats EXCEPT !.draws = @ + 1, !.points = @ + 1]
    ELSE stats

\* the loop body for a game that has a move at the branching ply
CountGame(stats, game, branching_ply) ==
    LET clean_move == CleanMove(ListGet(game.moves, branching_ply))
        entry == IF HasKey(stats, clean_move) THEN DictGet(stats, clean_move)
                 ELSE NewStats
        counted == [entry EXCEPT !.count = @ + 1]
    IN  DictSet(stats, clean_move,
                Scored(counted, ResultOf(game), branching_ply % 2 = 0))

\* the items left in the order of the dict
InDictOrder(items) == items

\* sorted(items, key=count, reverse=True): by falling count, and in the
\* order of the dict among equal counts
RECURSIVE SortByCount(_)
SortByCount(items) ==
    IF items = <<>> THEN <<>>
    ELSE LET rest == SortByCount(SubSeq(items, 1, Len(items) - 1))
             x == items[Len(items)]
             before == SelectSeq(rest, LAMBDA y : y[2].count >= x[2].count)
             after == SelectSeq(rest, LAMBDA y : y[2].count < x[2].count)
         IN  before \o <<x>> \o after

\* the rates of a kept move, each as <<numerator, denominator>> of the
\* percentage: wins / count * 100 is <<100 * wins, count>>
WithRates(stats) ==
    [count |-> stats.count, points |-> stats.points, wins |-> stats.wins,
     draws |-> stats.draws, losses |-> stats.losses,
     win_rate |-> <<100 * stats.wins, stats.count>>,
     draw_rate |-> <<100 * stats.draws, stats.count>>,
     loss_rate |-> <<100 * stats.losses, stats.count>>,
     score_percentage |-> <<100 * stats.points, 2 * stats.count>>]

\* the dict returned after the loop
ReportOf(gs, stats, branching_ply) ==
    LET kept == SelectSeq(stats, LAMBDA item : item[2].count > 1)
        rated == [i \in 1..Len(kept) |-> <<kept[i][1], WithRates(kept[i][2])>>]
    IN  [ply_number |-> branching_ply + 1,
         move_number |-> (branching_ply \div 2) + 1,
         is_white_move |-> branching_ply % 2 = 0,
         total_games_analyzed |->
             Cardinality({i \in 1..Len(gs) : branching_ply < Len(gs[i].moves)}),
         branching_moves |-> SortByCount(rated)]

-----------------------------------------------------------------------------
(* The opening report under test: the games loaded are filtered by a       *)
(* pattern and a start move, and the matching games are analyzed.          *)

MaxGames == 3

\* a game as load_pgn leaves it
GameOf(ms, result) ==
    set_moves(IF result = <<>> THEN NewGame ELSE add_header(NewGame, ResultKey, result),
              JoinSpace(ms))

OpeningNf3 == << <<"e", "4">>, <<"e", "5">>, <<"N", "f", "3">> >>
OpeningNf3Check == << <<"e", "4">>, <<"e", "5">>, <<"N", "f", "3", "+">> >>
OpeningBc4 == << <<"e", "4">>, <<"e", "5">>, <<"B", "c", "4">> >>
OpeningShort == << <<"e", "4">>, <<"e", "5">> >>
OpeningOnly == << <<"e", "4">> >>

ReportGames ==
    { GameOf(OpeningNf3, ResultMarkers[1]), GameOf(OpeningNf3Check, ResultMarkers[3]),
      GameOf(OpeningNf3, ResultMarkers[2]), GameOf(OpeningNf3, <<"*">>),
      GameOf(OpeningBc4, ResultMarkers[2]), GameOf(OpeningBc4, <<>>),
      GameOf(OpeningBc4, ResultMarkers[3]), GameOf(OpeningShort, ResultMarkers[1]),
      GameOf(OpeningOnly, ResultMarkers[1]) }

ReportPatterns == { <<>>, << <<"*">> >>, << <<"e", "4">>, <<"e", "5">> >> }

InitReport ==
    /\ pc = "parsed"
    /\ games \in SeqUpTo(ReportGames, MaxGames)
    /\ lines = <<>> /\ pos = 0 /\ current_game = <<>> /\ moves_section = <<>>
    /\ ret = "None"
    /\ GameIdle /\ ArgIdle /\ RatingIdle /\ FilterIdle /\ StreamIdle /\ BranchIdle

BranchingPly == BranchingPlyOf(pattern, start_move)

\* main of opening_report.py: filter_games with the pattern and the start
\* move of the command line
FilterForReport ==
    /\ pc = "parsed"
    /\ \E pat \in ReportPatterns, start \in 0..MaxStartMove :
          /\ pattern' = pat
          /\ start_move' = start
          /\ matching_games' = filter_games(games, pat, start)
    /\ pc' = "filtered"
    /\ UNCHANGED <<ret, output_file, run, first_matching>>
    /\ UNCHANGED <<gameVars, ratingVars, parserVars, streamVars, branchVars>>

\* main calls analyze_branching_point when there are matching games
AnalyzeBranchingPoint ==
    /\ pc = "filtered"
    /\ matching_games # <<>>
    /\ game_idx' = 0
    /\ move_stats' = <<>>
    /\ pc' = "analyzing"
    /\ UNCHANGED <<ret, analysis>>
    /\ UNCHANGED <<gameVars, argVars, ratingVars, parserVars, filterVars, streamVars>>

\* one turn of the loop over the games
AnalyzeGame ==
    /\ pc = "analyzing"
    /\ game_idx < Len(matching_games)
    /\ LET game == matching_games[game_idx + 1]
       IN  \/ /\ BranchingPly >= Len(game.moves)         \* game too short
              /\ game_idx' = game_idx + 1
              /\ UNCHANGED <<pc, move_stats>>
           \/ /\ BranchingPly < Len(game.moves)
              /\ ~InRange(game.moves, BranchingPly)      \* game.moves[branching_ply]
              /\ pc' = "IndexError"
              /\ UNCHANGED <<game_idx, move_stats>>
           \/ /\ BranchingPly < Len(game.moves)
              /\ InRange(game.moves, BranchingPly)
              /\ move_stats' = CountGame(move_stats, game, BranchingPly)
              /\ game_idx' = game_idx + 1
              /\ UNCHANGED pc
    /\ UNCHANGED <<ret, analysis>>
    /\ UNCHANGED <<gameVars, argVars, ratingVars, parserVars, filterVars, streamVars>>

\* after the loop: the moves seen once are dropped and the report returned
AnalyzeReturn ==
    /\ pc = "analyzing"
    /\ game_idx = Len(matching_games)
    /\ analysis' = ReportOf(matching_games, move_stats, BranchingPly)
    /\ pc' = "reported"
    /\ UNCHANGED <<ret, game_idx, move_stats>>
    /\ UNCHANGED <<gameVars, argVars, ratingVars, parserVars, filterVars, streamVars>>

NextReport ==
    \/ FilterForReport
    \/ AnalyzeBranchingPoint
    \/ AnalyzeGame
    \/ AnalyzeReturn

SpecReport == InitReport /\ [][NextReport]_vars

\* the games gone through that have a move at the branching ply, and this
\* cleaned move in it
Reaching(move) ==
    {i \in 1..game_idx :
        /\ BranchingPly < Len(matching_games[i].moves)
        /\ CleanMove(ListGet(matching_games[i].moves, BranchingPly)) = move}

\* those of them with a decisive or drawn result
Decided(move) ==
    {i \in Reaching(move) :
        ResultOf(matching_games[i]) \in
            {ResultMarkers[1], ResultMarkers[2], ResultMarkers[3]}}

RECURSIVE SumOfCounts(_)
SumOfCounts(stats) ==
    IF stats = <<>> THEN 0 ELSE Head(stats)[2].count + SumOfCounts(Tail(stats))

\* The counters of the games gone through: a move's count is the number of
\* them, of any result, that have it at the branching ply, and its wins,
\* draws and losses together are the number of those with the result 1-0,
\* 0-1 or 1/2-1/2; so wins + draws + losses <= count, with equality exactly
\* when every game counted was decided, and in the report the counts add up
\* to total_games_analyzed.
CountersOfGamesGoneThrough ==
    pc \in {"analyzing", "IndexError", "reported"} =>
        /\ \A k \in 1..Len(move_stats) :
              LET move == move_stats[k][1]
                  st == move_stats[k][2]
              IN  /\ st.count = Cardinality(Reaching(move))
                  /\ st.wins + st.draws + st.losses = Cardinality(Decided(move))
                  /\ st.wins + st.draws + st.losses <= st.count
                  /\ (st.wins + st.draws + st.losses = st.count)
                        <=> Decided(move) = Reaching(move)
        /\ pc = "reported" => SumOfCounts(move_stats) = analysis.total_games_analyzed

\* C10: every game with more tokens than the branching ply adds one to the
\* count of its cleaned move at that ply, whatever its result, and wins,
\* draws, losses and points change only for the results 1-0, 0-1 and
\* 1/2-1/2: the loop never stops at such a game without counting it, and
\* the counters are those of the games gone through.
EveryReachingGameCounted ==
    /\ pc # "IndexError"
    /\ CountersOfGamesGoneThrough

\* a report was made of two games with Nf3, one of them unfinished
CountedButNotScored ==
    /\ pc = "reported"
    /\ start_move = 1 /\ Len(pattern) = 2
    /\ \E k \in 1..Len(move_stats) :
          /\ move_stats[k][1] = <<"N", "f", "3">>
          /\ move_stats[k][2].count = 2
          /\ move_stats[k][2].wins = 1
          /\ move_stats[k][2].draws + move_stats[k][2].losses = 0
    /\ analysis.total_games_analyzed = 2

\* the games gone through that have this move at the branching ply and
\* this result
WithResult(move, result) ==
    {i \in Reaching(move) : ResultOf(matching_games[i]) = result}

\* C11: the branching ply is White's when it is even and Black's when odd;
\* 1-0 is a win and one point for a White ply and a loss and no point for a
\* Black ply, 0-1 is the mirror, 1/2-1/2 is a draw and half a point for
\* either side; so points = wins + draws / 2 (in half points,
\* 2 * wins + draws), and in the report score% = points / count * 100.
ScoredBySideToMove ==
    pc \in {"analyzing", "IndexError", "reported"} =>
        LET white == BranchingPly % 2 = 0
            won == IF white THEN ResultMarkers[1] ELSE ResultMarkers[2]
            lost == IF white THEN ResultMarkers[2] ELSE ResultMarkers[1]
        IN  /\ \A k \in 1..Len(move_stats) :
                  LET move == move_stats[k][1]
                      st == move_stats[k][2]
                  IN  /\ st.wins = Cardinality(WithResult(move, won))
                      /\ st.losses = Cardinality(WithResult(move, lost))
                      /\ st.draws = Cardinality(WithResult(move, ResultMarkers[3]))
                      /\ st.points = 2 * st.wins + st.draws
            /\ pc = "reported" =>
                  /\ analysis.is_white_move = white
                  /\ \A k \in 1..Len(analysis.branching_moves) :
                        LET e == analysis.branching_moves[k][2]
                        IN  /\ e = WithRates(DictGet(move_stats, analysis.branching_moves[k][1]))
                            /\ e.score_percentage[1] * 2 * e.count
                                  = e.score_percentage[2] * 100 * (2 * e.wins + e.draws)

\* the report of three games with e4 e5, two going on with Nf3 (a win and a
\* draw) and one with Bc4: Nf3 has count 2 and 75%
WinAndDrawScore75 ==
    /\ pc = "reported"
    /\ start_move = 1 /\ Len(pattern) = 2
    /\ Len(matching_games) = 3
    /\ Len(analysis.branching_moves) = 1
    /\ analysis.branching_moves[1][1] = <<"N", "f", "3">>
    /\ LET e == analysis.branching_moves[1][2]
       IN  /\ e.count = 2 /\ e.wins = 1 /\ e.draws = 1 /\ e.losses = 0
           /\ e.points = 3
           /\ e.score_percentage[1] = 75 * e.score_percentage[2]

-----------------------------------------------------------------------------
(* The opening report of more games, so that several moves are kept and    *)
(* their order shows.                                                      *)

MaxManyGames == 5

ManyGames ==
    { GameOf(OpeningNf3, ResultMarkers[1]), GameOf(OpeningNf3Check, ResultMarkers[3]),
      GameOf(OpeningBc4, ResultMarkers[2]), GameOf(OpeningShort, ResultMarkers[1]) }

InitReportMany ==
    /\ pc = "parsed"
    /\ games \in SeqUpTo(ManyGames, MaxManyGames)
    /\ lines = <<>> /\ pos = 0 /\ current_game = <<>> /\ moves_section = <<>>
    /\ ret = "None"
    /\ GameIdle /\ ArgIdle /\ RatingIdle /\ FilterIdle /\ StreamIdle /\ BranchIdle

SpecReportMany == InitReportMany /\ [][NextReport]_vars

\* the cleaned moves the matching games have at the branching ply
MovesAtBranch ==
    {CleanMove(ListGet(matching_games[i].moves, BranchingPly)) :
        i \in {j \in 1..Len(matching_games) :
                  /\ BranchingPly < Len(matching_games[j].moves)
                  /\ InRange(matching_games[j].moves, BranchingPly)}}

\* C12: the branching_moves of the report are exactly the cleaned moves
\* that two or more games have at the branching ply, each once and with
\* that number as its count, in non-increasing order of count.
ReportKeepsRepeatedMovesByCount ==
    pc = "reported" =>
        LET bm == analysis.branching_moves
        IN  /\ {bm[k][1] : k \in 1..Len(bm)}
                  = {mv \in MovesAtBranch : Cardinality(Reaching(mv)) >= 2}
            /\ \A k, l \in 1..Len(bm) : bm[k][1] = bm[l][1] => k = l
            /\ \A k \in 1..Len(bm) : bm[k][2].count = Cardinality(Reaching(bm[k][1]))
            /\ \A k \in 1..(Len(bm) - 1) : bm[k][2].count >= bm[k + 1][2].count

\* a report of Nf3 (3 games) before Bc4 (2 games), though the first game
\* went on with Bc4
MoreFrequentMoveListedFirst ==
    /\ pc = "reported"
    /\ start_move = 1 /\ Len(pattern) = 2
    /\ Len(matching_games[1].moves) = 3
    /\ matching_games[1].moves[3] = <<"B", "c", "4">>
    /\ Len(analysis.branching_moves) = 2
    /\ analysis.branching_moves[1][1] = <<"N", "f", "3">>
    /\ analysis.branching_moves[1][2].count = 3
    /\ analysis.branching_moves[2][1] = <<"B", "c", "4">>
    /\ analysis.branching_moves[2][2].count = 2

-----------------------------------------------------------------------------
(* The record boundary of parse_pgn_content.                               *)

\* the step of the loop on a blank line
BlankLineStep ==
    /\ pc = "parsing" /\ pos < Len(lines) /\ pos' = pos + 1
    /\ Strip(lines[pos + 1]) = <<>>

\* the lines ls with one more blank line after line i
WithBlankAfter(ls, i) == SubSeq(ls, 1, i) \o << <<>> >> \o SubSeq(ls, i + 1, Len(ls))

\* one more blank line next to a blank line leaves the games parsed as they
\* are
ExtraBlankLineChangesNothing ==
    pc = "parsed" =>
        /\ games = ParsedFrom(lines)
        /\ \A i \in 1..Len(lines) :
              Strip(lines[i]) = <<>> => ParsedFrom(WithBlankAfter(lines, i)) = games

\* C13, as the specification states it: a blank line emits the game in
\* progress whenever a header line or a movetext line has been gathered for
\* it, and changes nothing otherwise.
BlankLineEmitsAnyRecord ==
    [][BlankLineStep =>
          IF current_game # <<>>
                /\ (current_game[1].headers # <<>> \/ moves_section # <<>>)
          THEN /\ Len(games') = Len(games) + 1
               /\ current_game' = <<>> /\ moves_section' = <<>>
          ELSE UNCHANGED <<current_game, moves_section, games>>]_vars

\* C13, amended: a blank line emits the game in progress exactly when a
\* header-shaped line has begun it and a movetext line has been gathered;
\* the game emitted has the headers read and the movetext lines joined by
\* spaces; any other blank line changes nothing, so that one more blank
\* line next to a blank line never changes the games parsed.
BlankLineEmitsGameWithMoves ==
    /\ []ExtraBlankLineChangesNothing
    /\ [][BlankLineStep =>
             IF current_game # <<>> /\ moves_section # <<>>
             THEN /\ games' = Append(games,
                          [headers |-> current_game[1].headers,
                           raw_moves |-> JoinSpace(moves_section),
                           moves |-> parse_moves(JoinSpace(moves_section))])
                  /\ current_game' = <<>> /\ moves_section' = <<>>
             ELSE UNCHANGED <<current_game, moves_section, games>>]_vars

\* a game read from headers, two blank lines and its movetext
GameAcrossTwoBlankLines ==
    /\ pc = "parsed" /\ run = 1
    /\ lines = <<HdrWhiteA, <<>>, <<>>, MovesLine>>
    /\ Len(games) = 1
    /\ games[1].headers # <<>>
    /\ games[1].moves = << <<"e", "4">>, <<"e", "5">> >>

-----------------------------------------------------------------------------
(* The movetext of the records of parse_pgn_content.                       *)

\* The movetext of each record of the lines ls, when a record's movetext
\* is the lines, neither blank nor header-shaped, from its first header
\* line on: begun tells that a header line of the record was read, sect
\* holds its movetext lines and out the movetext of the records before it.
RECURSIVE MovetextFrom(_, _, _, _)
MovetextFrom(ls, begun, sect, out) ==
    IF ls = <<>>
    THEN IF begun /\ sect # <<>> THEN Append(out, JoinSpace(sect)) ELSE out
    ELSE LET line == Strip(Head(ls))
         IN  IF line = <<>>
             THEN IF begun /\ sect # <<>>
                  THEN MovetextFrom(Tail(ls), FALSE, <<>>, Append(out, JoinSpace(sect)))
                  ELSE MovetextFrom(Tail(ls), begun, sect, out)
             ELSE IF IsHeaderShaped(line)
             THEN MovetextFrom(Tail(ls), TRUE, sect, out)
             ELSE MovetextFrom(Tail(ls), begun,
                               IF begun THEN Append(sect, line) ELSE sect, out)

\* C14: a line that is neither blank nor a header is movetext of a record
\* only when it comes after a header line of that record; a line before any
\* header of the record is in no record's movetext, so the movetext of each
\* record parsed is the space-joined movetext lines from its first header
\* to its boundary.
MovetextIsTheRecordsOwn ==
    pc = "parsed" =>
        [k \in 1..Len(games) |-> games[k].raw_moves]
            = MovetextFrom(lines, FALSE, <<>>, <<>>)

-----------------------------------------------------------------------------
(* Both parsers under test, each on its own file.                          *)

InitParsers == InitFilter \/ InitStream

NextParsers == NextFilter \/ NextStream

SpecParsers == InitParsers /\ [][NextParsers]_vars

\* the next line is header-shaped and does not parse as a header
AtMalformedHeader ==
    /\ pos < Len(lines) /\ pos' = pos + 1
    /\ IsHeaderShaped(Strip(lines[pos + 1]))
    /\ ParseHeader(Strip(lines[pos + 1])) = <<>>

\* C15: a line that starts with [ and ends with ] and does not parse as
\* [Key "Value"] adds no header, is not added to the movetext and neither
\* ends nor resets the record: in parse_pgn_content the headers, the
\* movetext and the games stay as they are (a record is begun when none
\* was); in _stream_process the headers, the counters and the output stay
\* as they are and the line joins the lines of the record.
MalformedHeaderChangesNoRecord ==
    [][/\ (pc = "parsing" /\ AtMalformedHeader) =>
            /\ games' = games
            /\ moves_section' = moves_section
            /\ current_game' = IF current_game = <<>> THEN <<NewGame>> ELSE current_game
       /\ (pc = "streaming" /\ AtMalformedHeader) =>
            /\ in_game'
            /\ current_headers' = current_headers
            /\ current_game_lines' = Append(current_game_lines, Strip(lines[pos + 1]))
            /\ UNCHANGED <<games_processed, games_matched, output_handle>>]_vars

\* one game was parsed from a header, a malformed header, another header
\* and the movetext
MalformedHeaderInsideRecord ==
    /\ pc = "parsed" /\ run = 1
    /\ lines = <<HdrWhiteA, BadHeader, HdrBlackB, MovesLine>>
    /\ Len(games) = 1
    /\ Len(games[1].headers) = 2
    /\ games[1].raw_moves = MovesLine

-----------------------------------------------------------------------------
(* The rating filter run a second time, on the file the first run wrote    *)
(* and with the same threshold.                                            *)

\* process_file on the output of the first run, with a filter newly made
StreamAgain ==
    /\ pc = "streamed"
    /\ run = 1
    /\ run' = 2
    /\ output_file' = output_handle
    /\ lines' = output_handle
    /\ pos' = 0
    /\ SetStreamLocals(StreamState(FALSE, <<>>, <<>>, 0, 0, <<>>))
    /\ pc' = "streaming"
    /\ UNCHANGED <<ret, current_game, moves_section, games, matching_games,
                   first_matching>>
    /\ UNCHANGED <<gameVars, argVars, ratingVars, branchVars>>

NextStreamTwice ==
    \/ StreamLine
    \/ StreamEnd
    \/ StreamAgain

SpecStreamTwice == InitStream /\ [][NextStreamTwice]_vars

\* the number of blank lines of a text: each game written ends with one
BlankLines(ls) == Cardinality({i \in 1..Len(ls) : ls[i] = <<>>})

\* C16: the rating filter run on its own output with the same threshold
\* accepts every game of it and writes the same text again: the second run
\* matches as many games as it processes, which are the games the first
\* run wrote, and its output equals the first.
SecondRunWritesTheSame ==
    (pc = "streamed" /\ run = 2) =>
        /\ output_handle = output_file
        /\ games_matched = games_processed
        /\ games_processed = BlankLines(output_file)

\* the second run has written two games again
TwoGamesWrittenTwice ==
    /\ pc = "streamed" /\ run = 2
    /\ games_matched = 2
    /\ Len(output_file) >= 5
    /\ output_handle = output_file

-----------------------------------------------------------------------------
(* The ply the analyzer reads against the plies the matcher compared.      *)

\* the loop of analyze_branching_point goes on to read game.moves of the
\* next game
ReadsBranchingPly ==
    /\ pc = "analyzing" /\ game_idx < Len(matching_games)
    /\ BranchingPly < Len(matching_games[game_idx + 1].moves)
    /\ (game_idx' = game_idx + 1 \/ pc' = "IndexError")

\* C17: for every start move, also below 1, and every pattern, the ply the
\* analyzer reads in a matching game is the one right after the plies the
\* matcher compared, StartIdx + Len(pattern) with the start move clamped to
\* 1, and is an index of the game's tokens, neither negative nor beyond
\* them.
AnalyzerReadsPlyAfterPattern ==
    [][ReadsBranchingPly =>
          /\ BranchingPly = StartIdx + Len(pattern)
          /\ BranchingPly >= 0
          /\ BranchingPly < Len(matching_games[game_idx + 1].moves)]_vars

=============================================================================
